---- MODULE Spec2Model ----
(***************************************************************************)
(* The warmup bot's queue orchestrator (src/app.py): the Flask handlers    *)
(* run_bot, stop_bot, reset_status and get_status, the worker thread       *)
(* run_bot_sequential and the pipeline run_bot_on_profile, with the        *)
(* driver object of src/facebook_bot.py reduced to what the orchestrator   *)
(* sees of it: whether a session exists and what each step returns.        *)
(*                                                                         *)
(* bot_status is the module-level dict.  Its "queue" field holds a         *)
(* reference to a list object: 0 is a fresh empty list (app.py:28, 439,    *)
(* 479), w > 0 is the list built by worker thread w (app.py:273-282),      *)
(* whose content is queues[w].  logs is the list bot_status["logs"] as the  *)
(* add_log calls of the request handlers build it (the lines the worker    *)
(* thread adds are left out), logger the position of each handler thread   *)
(* inside add_log.  response is the answer of the HTTP request the last    *)
(* step handled, for the handlers that can answer 400.  profiles is the    *)
(* list stored in profiles.json, which the handlers of /api/profiles       *)
(* rewrite, and assigned the set of ids add_profile has given out.         *)
(* stopped is a history variable: what each worker has done since a stop   *)
(* was requested while it was processing its queue.                        *)
(***************************************************************************)
EXTENDS Integers, Sequences, FiniteSets, TLC

VARIABLES bot_status, queues, thr, nthreads, nentries, profiles, assigned,
          response, logs, logger, nlogged, stopped

vars == <<bot_status, queues, thr, nthreads, nentries, profiles, assigned,
          response, logs, logger, nlogged, stopped>>

\* profiles.json, and the ids add_profile has given out so far
pstore == <<profiles, assigned>>

\* the log list and the threads inside add_log
logvars == <<logs, logger, nlogged>>

----------------------------------------------------------------------------
(* Bounds of the model *)

\* worker threads started in one behaviour (accepted POST /run requests)
MaxRuns == 2
\* longest profile selection of a POST /run
MaxProfiles == 1
\* largest loops value requested in the orchestrator specification
MaxLoops == 2
\* queue entries requested in one behaviour, over all its runs
MaxEntries == 2
\* soft-fail steps returning False in one behaviour
MaxSoftFails == 1

\* largest profile id add_profile gives out in the profile specifications
MaxProfileId == 3

\* largest profile id add_profile gives out, and the queue entries of the
\* one run, in the lookup specification
MaxLookupId == 1
MaxLookupEntries == 2

\* queue entries requested in one behaviour of the queue-order specification
MaxOrderEntries == 3

\* driver steps counted after a stop request
MaxStepsNoted == 4

\* log lines written in one behaviour of the reset specification
MaxResetLogLines == 2
\* log lines written beyond the capacity of the log in one behaviour of the
\* log specification
MaxLogOver == 2

(* Program constants *)

\* app.py:428-429, the maximum of loops
LoopsCap == 100

\* app.py:54-55, the capacity of the log list
LogCap == 200

\* the request-handler threads of the server (app.py:511, threaded=True)
Handlers == {1, 2}

Names == {"alice", "bob"}
Paths == {"p1", "p2"}

\* profiles.json when the process starts: one profile per stored name
StoredProfiles == <<[id |-> 1, name |-> "alice", path |-> "p1"]>>

Threads == 1..MaxRuns

\* a JSON value received as "loops": an integer or something else
IntVal(n) == [int |-> TRUE, val |-> n]
NonInt == [int |-> FALSE, val |-> 0]

RECURSIVE SeqsUpTo(_, _)
SeqsUpTo(S, n) ==
    IF n = 0 THEN {<<>>}
    ELSE LET shorter == SeqsUpTo(S, n - 1)
         IN  shorter \cup {Append(s, x) : s \in {t \in shorter : Len(t) = n - 1}, x \in S}

\* selections and loops values of the queue-building specification
MaxBuildProfiles == 2
MaxBuildLoops == 3
MaxBuildOver == 2

\* the request bodies of POST /run in the orchestrator specification
Selections == SeqsUpTo(Names, MaxProfiles)
LoopInputs == {IntVal(n) : n \in 1..MaxLoops}

\* the request bodies of POST /run in the queue-building specification
BuildSelections == SeqsUpTo(Names, MaxBuildProfiles)
BuildLoopInputs ==
    {NonInt} \cup {IntVal(n) : n \in (-1)..MaxBuildLoops}
             \cup {IntVal(LoopsCap + d) : d \in (-1)..MaxBuildOver}

----------------------------------------------------------------------------
(* Data *)

EmptyMap == <<>>

\* the step handled no request that is answered here
NoResponse == [route |-> "none", code |-> 0]
Response(route, code, track) ==
    IF track THEN [route |-> route, code |-> code] ELSE NoResponse

\* f"{profile['name']}_R{round_num}": the pair determines the string and back
Key(name, round_num) == <<name, round_num>>

DefaultStatus ==
    [running |-> FALSE,
     stop_requested |-> FALSE,
     current_profile |-> "None",
     current_task |-> "None",
     current_round |-> 0,
     total_rounds |-> 1,
     queue |-> 0,
     current_queue_index |-> -1,
     completed |-> <<>>,
     failed |-> <<>>,
     task_results |-> EmptyMap]

\* no profile record
NoProfile == [id |-> 0, name |-> "None", path |-> "None"]

\* {p['name']: p for p in profiles} (app.py:285): of two profiles with one
\* name the later one stays
DictOf(ps) ==
    [n \in {ps[i].name : i \in DOMAIN ps} |->
        ps[CHOOSE i \in DOMAIN ps :
              /\ ps[i].name = n
              /\ \A j \in DOMAIN ps : ps[j].name = n => j <= i]]

\* the locals of a worker thread that has not been started.  exc is the
\* exception the try block of run_bot_on_profile raised (the hard-fail step
\* whose False raised it, or "IndexError"), raising says that the except
\* block itself raised; opens and quits count webdriver.Edge() and
\* driver.quit() calls of the current pipeline; request is the loops value
\* the POST /run carried.
NoThread ==
    [pc |-> "unborn",
     request |-> NonInt,
     selected_profiles |-> <<>>,
     loops |-> 0,
     index |-> 0,
     profiles_dict |-> EmptyMap,
     profile |-> NoProfile,
     tasks |-> EmptyMap,
     driver |-> "none",
     opens |-> 0,
     quits |-> 0,
     softfails |-> 0,
     exc |-> "none",
     raising |-> FALSE]

\* a thread that returned, or that an uncaught exception ended: its locals
\* are gone
Ended(how) == [NoThread EXCEPT !.pc = how]

\* bot_status["queue"] as a list
VisibleQueue == IF bot_status.queue = 0 THEN <<>> ELSE queues[bot_status.queue]

\* bot_status["queue"][i] exists (i counts from 1 here, from 0 in the code)
InRange(i) == i \in 1..Len(VisibleQueue)

\* bot_status["queue"][i]["status"] = s, for i in range
WriteStatus(i, s) == [queues EXCEPT ![bot_status.queue][i].status = s]

\* a list object that no live thread holds and bot_status["queue"] does not
\* refer to is garbage
Collect(qs, ref, th) ==
    [w \in Threads |->
        IF th[w].pc \in {"unborn", "done", "dead"} /\ ref # w THEN <<>> ELSE qs[w]]

\* d[k] = v on a dict
Put(d, k, v) == [x \in (DOMAIN d) \cup {k} |-> IF x = k THEN v ELSE d[x]]

----------------------------------------------------------------------------
(* QueueBuilder *)

\* app.py:426-429
ClampLoops(v) ==
    LET l == IF ~v.int \/ v.val < 1 THEN 1 ELSE v.val
    IN  IF l > LoopsCap THEN LoopsCap ELSE l

RECURSIVE RoundEntries(_, _, _)
\* the inner loop of app.py:275-280 from position k of the selection
RoundEntries(sel, round_num, k) ==
    IF k > Len(sel) THEN <<>>
    ELSE <<[profile |-> sel[k], round |-> round_num, status |-> "pending"]>>
         \o RoundEntries(sel, round_num, k + 1)

RECURSIVE BuildFrom(_, _, _)
\* the outer loop of app.py:274-280 from round round_num
BuildFrom(sel, loops, round_num) ==
    IF round_num > loops THEN <<>>
    ELSE RoundEntries(sel, round_num, 1) \o BuildFrom(sel, loops, round_num + 1)

RECURSIVE ProfileMajor(_, _, _)
ProfileMajor(sel, loops, k) ==
    IF k > Len(sel) THEN <<>>
    ELSE [r \in 1..loops |-> [profile |-> sel[k], round |-> r, status |-> "pending"]]
         \o ProfileMajor(sel, loops, k + 1)

BuildQueueProfileMajor(sel, loops) == ProfileMajor(sel, loops, 1)

\* app.py:272-280
BuildQueue(sel, loops) == BuildFrom(sel, loops, 1)

----------------------------------------------------------------------------
(* The control surface *)

\* History of the stop requests.  stopped[w].at is the queue index worker w
\* was on when a stop was first requested while it was processing its queue
\* (0 when none was), steps the driver steps w has started since, counted
\* up to MaxStepsNoted, and later
\* says that one of them belonged to an entry behind that index.
NotStopped == [at |-> 0, steps |-> 0, later |-> FALSE]

\* worker w is processing its queue: between app.py:303 and app.py:331
Processing(w) ==
    thr[w].pc \notin {"unborn", "start", "build", "final", "done", "dead"}

\* a stop request is handled
NoteStop ==
    [w \in Threads |->
        IF Processing(w) /\ stopped[w].at = 0
        THEN [stopped[w] EXCEPT !.at = thr[w].index]
        ELSE stopped[w]]

\* worker w starts a driver step
NoteStep(w) ==
    IF stopped[w].at = 0 THEN stopped
    ELSE [stopped EXCEPT ![w].steps = IF @ < MaxStepsNoted THEN @ + 1 ELSE @,
                         ![w].later = @ \/ thr[w].index > stopped[w].at]

\* the history of a worker ends with its thread
Forget ==
    [w \in Threads |->
        IF thr'[w].pc \in {"done", "dead"} THEN NotStopped ELSE stopped[w]]

\* a handler thread that is not inside add_log
IdleLogger == [pc |-> "idle", slice |-> <<>>]

Init ==
    /\ bot_status = DefaultStatus
    /\ queues = [w \in Threads |-> <<>>]
    /\ thr = [w \in Threads |-> NoThread]
    /\ nthreads = 0
    /\ nentries = 0
    /\ profiles = StoredProfiles
    /\ assigned = {profiles[i].id : i \in DOMAIN profiles}
    /\ response = NoResponse
    /\ logs = <<>>
    /\ logger = [h \in Handlers |-> IdleLogger]
    /\ nlogged = 0
    /\ stopped = [w \in Threads |-> NotStopped]

\* app.py:418-419 and 431-432: the request is answered 400
RunBotRejects(sel) == bot_status.running \/ sel = <<>>

\* app.py:434-439
RunBotResets ==
    [bot_status EXCEPT !.completed = <<>>, !.failed = <<>>,
                       !.task_results = EmptyMap, !.queue = 0]

\* run_bot with the reset of app.py:434-439 moved before the check of the
\* selection
RunBotResetsFirst(sel, req, maxRuns, maxEntries, track) ==
    IF bot_status.running
    THEN /\ response' = Response("run", 400, track)
         /\ UNCHANGED <<bot_status, queues, thr, nthreads, nentries, pstore,
                   stopped>>
         /\ UNCHANGED logvars
    ELSE IF sel = <<>>
    THEN /\ response' = Response("run", 400, track)
         /\ bot_status' = RunBotResets
         /\ queues' = Collect(queues, 0, thr)
         /\ UNCHANGED <<thr, nthreads, nentries, pstore, stopped>>
         /\ UNCHANGED logvars
    ELSE /\ nthreads < maxRuns
         /\ nentries + Len(sel) * ClampLoops(req) <= maxEntries
         /\ nentries' = nentries + Len(sel) * ClampLoops(req)
         /\ bot_status' = RunBotResets
         /\ nthreads' = nthreads + 1
         /\ thr' = [thr EXCEPT ![nthreads + 1] =
                       [NoThread EXCEPT !.pc = "start",
                                        !.request = req,
                                        !.selected_profiles = sel,
                                        !.loops = ClampLoops(req)]]
         /\ queues' = Collect(queues, 0, thr')
         /\ response' = Response("run", 200, track)
         /\ UNCHANGED <<pstore, stopped>>
         /\ UNCHANGED logvars

\* app.py:413-450, POST /api/run with body {profiles: sel, loops: req}.
\* maxRuns and maxEntries bound the threads and the queue entries of one
\* behaviour; track says whether the answer is kept in response.
RunBot(sel, req, maxRuns, maxEntries, track) ==
    IF RunBotRejects(sel)
    THEN /\ response' = Response("run", 400, track)
         /\ UNCHANGED <<bot_status, queues, thr, nthreads, nentries, pstore,
                   stopped>>
         /\ UNCHANGED logvars
    ELSE /\ nthreads < maxRuns
         /\ nentries + Len(sel) * ClampLoops(req) <= maxEntries
         /\ nentries' = nentries + Len(sel) * ClampLoops(req)
         /\ bot_status' = RunBotResets
         /\ nthreads' = nthreads + 1
         /\ thr' = [thr EXCEPT ![nthreads + 1] =
                       [NoThread EXCEPT !.pc = "start",
                                        !.request = req,
                                        !.selected_profiles = sel,
                                        !.loops = ClampLoops(req)]]
         /\ queues' = Collect(queues, 0, thr')
         /\ response' = Response("run", 200, track)
         /\ UNCHANGED <<pstore, stopped>>
         /\ UNCHANGED logvars

\* app.py:452-455, GET /api/status
GetStatus ==
    /\ response' = NoResponse
    /\ UNCHANGED logvars
    /\ UNCHANGED <<bot_status, queues, thr, nthreads, nentries, pstore,
                   stopped>>

\* the add_log calls that have not appended their line yet
PendingLines == Cardinality({h \in Handlers : logger[h].pc = "append"})

\* app.py:457-463, POST /api/stop handled by thread h up to the call of
\* add_log: the flag is set.  keep says whether the log list is kept,
\* maxLines bounds the lines written in one behaviour.
StopBot(h, keep, maxLines, note) ==
    /\ logger[h].pc = "idle"
    /\ keep => nlogged + PendingLines < maxLines
    /\ bot_status' = [bot_status EXCEPT !.stop_requested = TRUE]
    /\ stopped' = IF note THEN NoteStop ELSE stopped
    /\ response' = Response("stop_bot", 200, keep)
    /\ IF keep
       THEN logger' = [logger EXCEPT ![h].pc = "append"]
       ELSE UNCHANGED logger
    /\ UNCHANGED <<queues, thr, nthreads, nentries, pstore, logs, nlogged>>

\* the list bot_status["logs"][-200:] makes of the list l
LastLines(l) ==
    IF Len(l) > LogCap THEN SubSeq(l, Len(l) - LogCap + 1, Len(l)) ELSE l

\* app.py:52, bot_status["logs"].append(log_entry); a line is the number of
\* the append that added it, nlogged the number of appends so far
LogAppend(h) ==
    /\ logger[h].pc = "append"
    /\ logs' = Append(logs, nlogged + 1)
    /\ nlogged' = nlogged + 1
    /\ logger' = [logger EXCEPT ![h].pc = "check"]
    /\ response' = NoResponse
    /\ UNCHANGED <<bot_status, queues, thr, nthreads, nentries, pstore,
                   stopped>>

\* app.py:54 and the right-hand side of app.py:55
LogCheck(h) ==
    /\ logger[h].pc = "check"
    /\ logger' = [logger EXCEPT ![h] =
                     IF Len(logs) > LogCap
                     THEN [@ EXCEPT !.pc = "rebind", !.slice = LastLines(logs)]
                     ELSE IdleLogger]
    /\ response' = NoResponse
    /\ UNCHANGED <<bot_status, queues, thr, nthreads, nentries, pstore, stopped,
                   logs, nlogged>>

\* the assignment of app.py:55; the handler then returns
LogRebind(h) ==
    /\ logger[h].pc = "rebind"
    /\ logs' = logger[h].slice
    /\ logger' = [logger EXCEPT ![h] = IdleLogger]
    /\ response' = NoResponse
    /\ UNCHANGED <<bot_status, queues, thr, nthreads, nentries, pstore, stopped, nlogged>>

ResetKeepsLogs(bs, lg) ==
    IF bs.running THEN [status |-> bs, logs |-> lg, code |-> 400]
    ELSE [status |-> DefaultStatus, logs |-> lg, code |-> 200]

ResetTogglesStop(bs, lg) ==
    IF bs.running THEN [status |-> bs, logs |-> lg, code |-> 400]
    ELSE [status |-> [DefaultStatus EXCEPT !.stop_requested = ~bs.stop_requested],
          logs |-> <<>>, code |-> 200]

\* app.py:468-486: what reset_status makes of the dict bs and its log list
\* lg, and the code it answers
ResetApplied(bs, lg) ==
    IF bs.running THEN [status |-> bs, logs |-> lg, code |-> 400]
    ELSE [status |-> DefaultStatus, logs |-> <<>>, code |-> 200]

\* app.py:465-486, POST /api/reset
ResetStatus(track) ==
    LET r == ResetApplied(bot_status, logs)
    IN  /\ bot_status' = r.status
        /\ logs' = r.logs
        /\ queues' = IF r.code = 200 THEN Collect(queues, 0, thr) ELSE queues
        /\ response' = Response("reset", r.code, track)
        /\ UNCHANGED <<thr, nthreads, nentries, pstore, stopped, logger, nlogged>>

\* app.py:489-494, POST /api/clear-logs
ClearLogs(track) ==
    /\ logs' = <<>>
    /\ response' = Response("clear_logs", 200, track)
    /\ UNCHANGED <<bot_status, queues, thr, nthreads, nentries, pstore, stopped,
                   logger, nlogged>>

----------------------------------------------------------------------------
(* The profile store: profiles.json behind /api/profiles *)

\* a field a request body does not carry
Absent == "absent"

\* max([p['id'] for p in profiles], default=0), app.py:376
MaxId(ps) ==
    IF ps = <<>> THEN 0
    ELSE CHOOSE m \in {ps[i].id : i \in DOMAIN ps} :
            \A i \in DOMAIN ps : ps[i].id <= m

\* app.py:370-372: a stored profile has the path of the request
PathExists(ps, path) == \E i \in DOMAIN ps : ps[i].path = path

\* app.py:364-388, POST /api/profiles with body {name, path}.  The field
\* "created" of the new profile is left out.
AddProfile(name, path, maxId, track) ==
    /\ MaxId(profiles) < maxId
    /\ IF PathExists(profiles, path)
       THEN /\ response' = Response("add_profile", 400, track)
            /\ UNCHANGED pstore
       ELSE /\ profiles' = Append(profiles, [id |-> MaxId(profiles) + 1,
                                             name |-> name,
                                             path |-> path])
            /\ assigned' = assigned \cup {MaxId(profiles) + 1}
            /\ response' = Response("add_profile", 200, track)
    /\ UNCHANGED <<bot_status, queues, thr, nthreads, nentries, stopped>>
    /\ UNCHANGED logvars

\* app.py:390-396, DELETE /api/profiles/<profile_id>
DeleteProfile(profile_id, track) ==
    /\ profiles' = SelectSeq(profiles, LAMBDA p : p.id # profile_id)
    /\ response' = Response("delete_profile", 200, track)
    /\ UNCHANGED <<bot_status, queues, thr, nthreads, nentries, assigned,
                   stopped>>
    /\ UNCHANGED logvars

\* app.py:404-408: the first profile with the id takes the fields the body
\* carries
Updated(ps, profile_id, name, path) ==
    IF \E i \in DOMAIN ps : ps[i].id = profile_id
    THEN LET first == CHOOSE i \in DOMAIN ps :
                         /\ ps[i].id = profile_id
                         /\ \A j \in DOMAIN ps : ps[j].id = profile_id => i <= j
         IN  [ps EXCEPT ![first].name = IF name = Absent THEN @ ELSE name,
                        ![first].path = IF path = Absent THEN @ ELSE path]
    ELSE ps

\* app.py:398-411, PUT /api/profiles/<profile_id> with body {name?, path?}
UpdateProfile(profile_id, name, path, track) ==
    /\ profiles' = Updated(profiles, profile_id, name, path)
    /\ response' = Response("update_profile", 200, track)
    /\ UNCHANGED <<bot_status, queues, thr, nthreads, nentries, assigned,
                   stopped>>
    /\ UNCHANGED logvars

\* app.py:358-362, GET /api/profiles
GetProfiles(track) ==
    /\ response' = Response("get_profiles", 200, track)
    /\ UNCHANGED <<bot_status, queues, thr, nthreads, nentries, pstore,
                   stopped>>
    /\ UNCHANGED logvars

----------------------------------------------------------------------------
(* The worker thread: run_bot_sequential *)

Self(w) == thr[w]

\* the worker's local list `queue` (the entries' profile and round are read
\* from it; every status is written through bot_status["queue"])
LocalQueue(w) == queues[w]

\* queue_item of the current iteration
Item(w) == LocalQueue(w)[Self(w).index]

\* app.py:262-270
SeqInit(w) ==
    /\ Self(w).pc = "start"
    /\ response' = NoResponse
    /\ UNCHANGED logvars
    /\ bot_status' = [bot_status EXCEPT !.running = TRUE,
                                        !.stop_requested = FALSE,
                                        !.completed = <<>>,
                                        !.failed = <<>>,
                                        !.task_results = EmptyMap,
                                        !.current_round = 0,
                                        !.total_rounds = Self(w).loops,
                                        !.current_queue_index = -1]
    /\ thr' = [thr EXCEPT ![w].pc = "build"]
    /\ UNCHANGED <<queues, nthreads, nentries, pstore, stopped>>

\* app.py:272-285: the queue is built and published, the lookup is taken
Build(w) ==
    /\ Self(w).pc = "build"
    /\ response' = NoResponse
    /\ UNCHANGED logvars
    /\ bot_status' = [bot_status EXCEPT !.queue = w]
    /\ thr' = [thr EXCEPT ![w].pc = "loop",
                          ![w].index = 1,
                          ![w].profiles_dict = DictOf(profiles)]
    /\ queues' = Collect([queues EXCEPT ![w] =
                             BuildQueue(Self(w).selected_profiles, Self(w).loops)],
                         w, thr')
    /\ UNCHANGED <<nthreads, nentries, pstore, stopped>>

\* app.py:306-308 on the list bot_status["queue"] refers to: the entries from
\* index to the end of the local queue that exist in it and are pending
MarkRemaining(w) ==
    [queues EXCEPT ![bot_status.queue] =
        [i \in 1..Len(VisibleQueue) |->
            IF /\ i >= Self(w).index
               /\ i <= Len(LocalQueue(w))
               /\ VisibleQueue[i].status = "pending"
            THEN [VisibleQueue[i] EXCEPT !.status = "skipped"]
            ELSE VisibleQueue[i]]]

\* the lookup the queue loop reads from the current profiles.json
ProfilesDictLive(w) == DictOf(profiles)

\* profiles_dict of app.py:285 as the queue loop reads it (app.py:314, 319)
ProfilesDict(w) == Self(w).profiles_dict

\* app.py:303-326: one iteration of the queue loop up to the call of the
\* pipeline.  An index that bot_status["queue"] does not have raises
\* IndexError, which nothing in the thread catches.
Loop(w) ==
    /\ Self(w).pc = "loop"
    /\ response' = NoResponse
    /\ UNCHANGED logvars
    /\ IF Self(w).index > Len(LocalQueue(w))
       THEN /\ thr' = [thr EXCEPT ![w].pc = "final"]
            /\ UNCHANGED <<bot_status, queues>>
       ELSE IF bot_status.stop_requested
       THEN /\ thr' = [thr EXCEPT ![w] =
                          IF Len(LocalQueue(w)) > Len(VisibleQueue)
                          THEN Ended("dead") ELSE [@ EXCEPT !.pc = "final"]]
            /\ queues' = Collect(IF bot_status.queue = 0 THEN queues
                                 ELSE MarkRemaining(w),
                                 bot_status.queue, thr')
            /\ UNCHANGED bot_status
       ELSE IF Item(w).profile \notin DOMAIN ProfilesDict(w)
       THEN IF InRange(Self(w).index)
            THEN /\ queues' = WriteStatus(Self(w).index, "skipped")
                 /\ thr' = [thr EXCEPT ![w].index = @ + 1]
                 /\ UNCHANGED bot_status
            ELSE /\ thr' = [thr EXCEPT ![w] = Ended("dead")]
                 /\ queues' = Collect(queues, bot_status.queue, thr')
                 /\ UNCHANGED bot_status
       ELSE /\ thr' = [thr EXCEPT ![w].pc = "p_begin",
                                  ![w].profile = ProfilesDict(w)[Item(w).profile]]
            /\ UNCHANGED <<bot_status, queues>>
    /\ UNCHANGED <<nthreads, nentries, pstore>>
    /\ stopped' = Forget

\* the end of the run with the result lists emptied as well
FinalClearsResults(w) ==
    /\ Self(w).pc = "final"
    /\ response' = NoResponse
    /\ UNCHANGED logvars
    /\ bot_status' = [bot_status EXCEPT !.running = FALSE,
                                        !.current_profile = "None",
                                        !.current_task = "None",
                                        !.current_round = 0,
                                        !.current_queue_index = -1,
                                        !.completed = <<>>,
                                        !.failed = <<>>]
    /\ thr' = [thr EXCEPT ![w] = Ended("done")]
    /\ queues' = Collect(queues, bot_status.queue, thr')
    /\ UNCHANGED <<nthreads, nentries, pstore>>
    /\ stopped' = Forget

\* app.py:333-342
Final(w) ==
    /\ Self(w).pc = "final"
    /\ response' = NoResponse
    /\ UNCHANGED logvars
    /\ bot_status' = [bot_status EXCEPT !.running = FALSE,
                                        !.current_profile = "None",
                                        !.current_task = "None",
                                        !.current_round = 0,
                                        !.current_queue_index = -1]
    /\ thr' = [thr EXCEPT ![w] = Ended("done")]
    /\ queues' = Collect(queues, bot_status.queue, thr')
    /\ UNCHANGED <<nthreads, nentries, pstore>>
    /\ stopped' = Forget

----------------------------------------------------------------------------
(* The pipeline: run_bot_on_profile *)

PipelineChecksBeforeLike ==
    <<"cp1", "browser_setup", "cp2", "navigation", "login_check", "feed_access",
      "cp3", "browse_feed", "visit_profile", "return_home", "cp4", "story",
      "cp5", "like_post", "comment", "image_post", "mark_completed">>

\* the stop checks and the steps of app.py:85-234 in program order, then
\* the completion at app.py:236
Pipeline ==
    <<"cp1", "browser_setup", "cp2", "navigation", "login_check", "feed_access",
      "cp3", "browse_feed", "visit_profile", "return_home", "cp4", "story",
      "like_post", "cp5", "comment", "image_post", "mark_completed">>

Checkpoints == {"cp1", "cp2", "cp3", "cp4", "cp5"}
HardSteps == {"browser_setup", "navigation", "login_check"}
SoftSteps == {"feed_access", "browse_feed", "visit_profile", "return_home",
              "story", "like_post", "comment", "image_post"}
Steps == HardSteps \cup SoftSteps

Position(pc) == CHOOSE k \in 1..Len(Pipeline) : Pipeline[k] = pc

\* the pipeline with the story step passed over
AfterSkipsStory(pc) ==
    IF pc = "cp4" THEN "like_post" ELSE Pipeline[Position(pc) + 1]

\* the statement that follows position pc when nothing is raised or returned
After(pc) == Pipeline[Position(pc) + 1]

\* bot_status["current_task"] as a step sets it
TaskLabel(pc) ==
    CASE pc = "browser_setup" -> "Setting up browser"
      [] pc = "navigation"    -> "Navigating to Facebook"
      [] pc = "login_check"   -> "Checking login status"
      [] pc = "feed_access"   -> "Verifying feed access"
      [] pc = "browse_feed"   -> "Browsing feed"
      [] pc = "visit_profile" -> "Visiting profile"
      [] pc = "return_home"   -> "Returning home"
      [] pc = "story"         -> "Watching story"
      [] pc = "like_post"     -> "Liking post"
      [] pc = "comment"       -> "Commenting on post"
      [] pc = "image_post"    -> "Creating image post"

\* profile_round_key of the entry the worker is on
EntryKey(w) == Key(Item(w).profile, Item(w).round)

CloseBrowserLeaks(t) == t

\* facebook_bot.py:2171-2182: quit is called whenever self.driver is set,
\* and close_browser leaves self.driver set
CloseBrowser(t) ==
    IF t.driver = "none" THEN t
    ELSE [t EXCEPT !.driver = "quit", !.quits = @ + 1]

\* what FacebookWarmupBot(...) at app.py:74-77 can do: return the object, or
\* raise (facebook_bot.py:209-225 creates the screenshots folder with
\* Path.mkdir, which raises OSError)
ConstructorOutcomes == {"ok", "raise"}

\* app.py:62-83.  The constructor call is outside the try block: what it
\* raises leaves run_bot_on_profile and run_bot_sequential and ends the
\* thread.  results["tasks"] is read only at app.py:239: the model empties it
\* wherever the try block is left before that line.
PBegin(w) ==
    /\ Self(w).pc = "p_begin"
    /\ response' = NoResponse
    /\ UNCHANGED logvars
    /\ IF InRange(Self(w).index)
       THEN /\ bot_status' =
                  [bot_status EXCEPT
                      !.current_profile = Item(w).profile,
                      !.current_round = Item(w).round,
                      !.current_queue_index = Self(w).index - 1,
                      !.task_results = Put(@, EntryKey(w), EmptyMap)]
            /\ \E o \in ConstructorOutcomes :
                  IF o = "ok"
                  THEN /\ queues' = WriteStatus(Self(w).index, "running")
                       /\ thr' = [thr EXCEPT ![w].pc = "cp1",
                                             ![w].tasks = EmptyMap,
                                             ![w].driver = "none",
                                             ![w].opens = 0,
                                             ![w].quits = 0,
                                             ![w].exc = "none",
                                             ![w].raising = FALSE]
                  ELSE /\ thr' = [thr EXCEPT ![w] = Ended("dead")]
                       /\ queues' = Collect(WriteStatus(Self(w).index, "running"),
                                            bot_status.queue, thr')
       ELSE \* IndexError at app.py:68, outside the try
            /\ bot_status' =
                  [bot_status EXCEPT
                      !.current_profile = Item(w).profile,
                      !.current_round = Item(w).round,
                      !.current_queue_index = Self(w).index - 1]
            /\ thr' = [thr EXCEPT ![w] = Ended("dead")]
            /\ queues' = Collect(queues, bot_status.queue, thr')
    /\ UNCHANGED <<nthreads, nentries, pstore>>
    /\ stopped' = Forget

CheckpointIgnoresStop(w) == FALSE

\* the flag as the check at app.py:87, 102, 136, 174, 208 reads it
CheckpointSeesStop(w) == bot_status.stop_requested

\* app.py:86-90, 101-106, 135-140, 173-178, 207-212
Checkpoint(w) ==
    /\ Self(w).pc \in Checkpoints
    /\ response' = NoResponse
    /\ UNCHANGED logvars
    /\ IF ~CheckpointSeesStop(w)
       THEN /\ thr' = [thr EXCEPT ![w].pc = After(@)]
            /\ UNCHANGED queues
       ELSE LET closed == IF Self(w).pc = "cp1" THEN Self(w)
                          ELSE CloseBrowser(Self(w))
            IN  IF InRange(Self(w).index)
                THEN /\ queues' = WriteStatus(Self(w).index, "skipped")
                     /\ thr' = [thr EXCEPT ![w] = [closed EXCEPT !.pc = "finally",
                                                                 !.tasks = EmptyMap]]
                ELSE /\ thr' = [thr EXCEPT ![w] = [closed EXCEPT !.pc = "except",
                                                                 !.exc = "IndexError",
                                                                 !.tasks = EmptyMap]]
                     /\ UNCHANGED queues
    /\ UNCHANGED <<bot_status, nthreads, nentries, pstore, stopped>>

\* what bot.setup_browser() can do (facebook_bot.py:227-294): return True with
\* a session, return False with none, or return False after webdriver.Edge
\* has created one
SetupOutcomes == {"ok", "fail", "fail_open"}

\* app.py:95-96, 111-112, 120-121: the step's False raises
HardStepRaises(ok) == ~ok

\* app.py:92-99, 108-115, 117-123
HardStep(w) ==
    /\ Self(w).pc \in HardSteps
    /\ response' = NoResponse
    /\ UNCHANGED logvars
    /\ bot_status' = [bot_status EXCEPT !.current_task = TaskLabel(Self(w).pc)]
    /\ \E o \in SetupOutcomes :
          LET ok == (o = "ok")
              opened == IF Self(w).pc = "browser_setup" /\ o # "fail"
                        THEN [Self(w) EXCEPT !.driver = "open", !.opens = @ + 1]
                        ELSE Self(w)
          IN  /\ Self(w).pc # "browser_setup" => o # "fail_open"
              /\ thr' = [thr EXCEPT ![w] =
                    IF HardStepRaises(ok)
                    THEN [opened EXCEPT !.pc = "except", !.exc = Self(w).pc,
                                        !.tasks = EmptyMap]
                    ELSE [opened EXCEPT !.pc = After(@),
                                        !.tasks = Put(@, Self(w).pc, TRUE)]]
    /\ stopped' = NoteStep(w)
    /\ UNCHANGED <<queues, nthreads, nentries, pstore>>

RECURSIVE SumSoftFails(_)
SumSoftFails(ws) ==
    IF ws = {} THEN 0
    ELSE LET w == CHOOSE x \in ws : TRUE
         IN  thr[w].softfails + SumSoftFails(ws \ {w})

\* the soft-fail steps that have returned False so far
SoftFails == SumSoftFails(Threads)

\* app.py:125-133, 142-171, 180-205, 214-233: the outcome is recorded and
\* the pipeline goes on; browse_feed is recorded True whatever happened
SoftStep(w) ==
    /\ Self(w).pc \in SoftSteps
    /\ response' = NoResponse
    /\ UNCHANGED logvars
    /\ bot_status' = [bot_status EXCEPT !.current_task = TaskLabel(Self(w).pc)]
    /\ \E ok \in BOOLEAN :
          /\ ~ok => Self(w).pc # "browse_feed" /\ SoftFails < MaxSoftFails
          /\ thr' = [thr EXCEPT ![w].pc = After(@),
                                ![w].tasks = Put(@, Self(w).pc, ok),
                                ![w].softfails = IF ok THEN @ ELSE @ + 1]
    /\ stopped' = NoteStep(w)
    /\ UNCHANGED <<queues, nthreads, nentries, pstore>>

\* app.py:236
MarkCompleted(w) ==
    /\ Self(w).pc = "mark_completed"
    /\ response' = NoResponse
    /\ UNCHANGED logvars
    /\ IF InRange(Self(w).index)
       THEN /\ queues' = WriteStatus(Self(w).index, "completed")
            /\ thr' = [thr EXCEPT ![w].pc = "append_completed"]
       ELSE /\ thr' = [thr EXCEPT ![w].pc = "except", ![w].exc = "IndexError",
                                  ![w].tasks = EmptyMap]
            /\ UNCHANGED queues
    /\ UNCHANGED <<bot_status, nthreads, nentries, pstore, stopped>>

\* app.py:237
AppendCompleted(w) ==
    /\ Self(w).pc = "append_completed"
    /\ response' = NoResponse
    /\ UNCHANGED logvars
    /\ bot_status' = [bot_status EXCEPT !.completed = Append(@, EntryKey(w))]
    /\ thr' = [thr EXCEPT ![w].pc = "record_results"]
    /\ UNCHANGED <<queues, nthreads, nentries, pstore, stopped>>

\* app.py:239
RecordResults(w) ==
    /\ Self(w).pc = "record_results"
    /\ response' = NoResponse
    /\ UNCHANGED logvars
    /\ bot_status' = [bot_status EXCEPT
                         !.task_results = Put(@, EntryKey(w), Self(w).tasks)]
    /\ thr' = [thr EXCEPT ![w].pc = "finally", ![w].tasks = EmptyMap]
    /\ UNCHANGED <<queues, nthreads, nentries, pstore, stopped>>

\* app.py:241-244; an IndexError raised here leaves the function after the
\* finally block
Except(w) ==
    /\ Self(w).pc = "except"
    /\ response' = NoResponse
    /\ UNCHANGED logvars
    /\ IF InRange(Self(w).index)
       THEN /\ queues' = WriteStatus(Self(w).index, "failed")
            /\ thr' = [thr EXCEPT ![w].pc = "append_failed"]
       ELSE /\ thr' = [thr EXCEPT ![w].pc = "finally", ![w].exc = "IndexError",
                                  ![w].raising = TRUE]
            /\ UNCHANGED queues
    /\ UNCHANGED <<bot_status, nthreads, nentries, pstore, stopped>>

\* app.py:245
AppendFailed(w) ==
    /\ Self(w).pc = "append_failed"
    /\ response' = NoResponse
    /\ UNCHANGED logvars
    /\ bot_status' = [bot_status EXCEPT !.failed = Append(@, EntryKey(w))]
    /\ thr' = [thr EXCEPT ![w].pc = "finally"]
    /\ UNCHANGED <<queues, nthreads, nentries, pstore, stopped>>

\* app.py:247-254
Finally(w) ==
    /\ Self(w).pc = "finally"
    /\ response' = NoResponse
    /\ UNCHANGED logvars
    /\ bot_status' = [bot_status EXCEPT !.current_task = "Closing browser"]
    /\ thr' = [thr EXCEPT ![w] = [CloseBrowser(Self(w)) EXCEPT !.pc = "return"]]
    /\ UNCHANGED <<queues, nthreads, nentries, pstore, stopped>>

\* app.py:256 and 326-331: the pipeline returns to the queue loop and its
\* locals are gone, or the IndexError raised at app.py:244 ends the thread
Return(w) ==
    /\ Self(w).pc = "return"
    /\ response' = NoResponse
    /\ UNCHANGED logvars
    /\ thr' = [thr EXCEPT ![w] =
                  IF Self(w).raising
                  THEN Ended("dead")
                  ELSE [@ EXCEPT !.pc = "loop",
                                 !.index = @ + 1,
                                 !.tasks = EmptyMap,
                                 !.driver = "none",
                                 !.opens = 0,
                                 !.quits = 0,
                                 !.exc = "none"]]
    /\ queues' = Collect(queues, bot_status.queue, thr')
    /\ UNCHANGED <<bot_status, nthreads, nentries, pstore>>
    /\ stopped' = Forget

----------------------------------------------------------------------------
(* The orchestrator *)

Next ==
    \/ \E sel \in Selections, req \in LoopInputs :
          RunBot(sel, req, MaxRuns, MaxEntries, FALSE)
    \/ GetStatus
    \/ \E h \in Handlers : StopBot(h, FALSE, 0, FALSE)
    \/ ResetStatus(FALSE)
    \/ \E w \in Threads : SeqInit(w)
    \/ \E w \in Threads : Build(w)
    \/ \E w \in Threads : Loop(w)
    \/ \E w \in Threads : Final(w)
    \/ \E w \in Threads : PBegin(w)
    \/ \E w \in Threads : Checkpoint(w)
    \/ \E w \in Threads : HardStep(w)
    \/ \E w \in Threads : SoftStep(w)
    \/ \E w \in Threads : MarkCompleted(w)
    \/ \E w \in Threads : AppendCompleted(w)
    \/ \E w \in Threads : RecordResults(w)
    \/ \E w \in Threads : Except(w)
    \/ \E w \in Threads : AppendFailed(w)
    \/ \E w \in Threads : Finally(w)
    \/ \E w \in Threads : Return(w)

Spec == Init /\ [][Next]_vars

\* a step of worker thread w
WorkerStep(w) ==
    \/ SeqInit(w) \/ Build(w) \/ Loop(w) \/ Final(w) \/ PBegin(w)
    \/ Checkpoint(w) \/ HardStep(w) \/ SoftStep(w) \/ MarkCompleted(w)
    \/ AppendCompleted(w) \/ RecordResults(w) \/ Except(w)
    \/ AppendFailed(w) \/ Finally(w) \/ Return(w)

\* a started thread is scheduled again and again, and every driver call and
\* sleep returns
SpecFair == Spec /\ \A w \in Threads : WF_vars(WorkerStep(w))

\* the same system with the answers of POST /run and POST /reset kept
NextControl ==
    \/ \E sel \in Selections, req \in LoopInputs :
          RunBot(sel, req, MaxRuns, MaxEntries, TRUE)
    \/ GetStatus
    \/ \E h \in Handlers : StopBot(h, FALSE, 0, FALSE)
    \/ ResetStatus(TRUE)
    \/ \E w \in Threads : SeqInit(w)
    \/ \E w \in Threads : Build(w)
    \/ \E w \in Threads : Loop(w)
    \/ \E w \in Threads : Final(w)
    \/ \E w \in Threads : PBegin(w)
    \/ \E w \in Threads : Checkpoint(w)
    \/ \E w \in Threads : HardStep(w)
    \/ \E w \in Threads : SoftStep(w)
    \/ \E w \in Threads : MarkCompleted(w)
    \/ \E w \in Threads : AppendCompleted(w)
    \/ \E w \in Threads : RecordResults(w)
    \/ \E w \in Threads : Except(w)
    \/ \E w \in Threads : AppendFailed(w)
    \/ \E w \in Threads : Finally(w)
    \/ \E w \in Threads : Return(w)

SpecControl == Init /\ [][NextControl]_vars

\* one run of one entry with the log list kept: POST /stop writes its line,
\* POST /clear-logs and POST /reset empty the list
NextReset ==
    \/ \E sel \in Selections, req \in LoopInputs : RunBot(sel, req, 1, 1, TRUE)
    \/ \E h \in Handlers : StopBot(h, TRUE, MaxResetLogLines, FALSE)
    \/ \E h \in Handlers : LogAppend(h)
    \/ \E h \in Handlers : LogCheck(h)
    \/ ClearLogs(TRUE)
    \/ ResetStatus(TRUE)
    \/ \E w \in Threads : SeqInit(w)
    \/ \E w \in Threads : Build(w)
    \/ \E w \in Threads : Loop(w)
    \/ \E w \in Threads : Final(w)
    \/ \E w \in Threads : PBegin(w)
    \/ \E w \in Threads : Checkpoint(w)
    \/ \E w \in Threads : HardStep(w)
    \/ \E w \in Threads : SoftStep(w)
    \/ \E w \in Threads : MarkCompleted(w)
    \/ \E w \in Threads : AppendCompleted(w)
    \/ \E w \in Threads : RecordResults(w)
    \/ \E w \in Threads : Except(w)
    \/ \E w \in Threads : AppendFailed(w)
    \/ \E w \in Threads : Finally(w)
    \/ \E w \in Threads : Return(w)

SpecReset == Init /\ [][NextReset]_vars

\* the log list under POST /stop requests handled by the threads of the
\* server, each one writing its line with add_log, and POST /clear-logs
NextLog ==
    \/ \E h \in Handlers : StopBot(h, TRUE, LogCap + MaxLogOver, FALSE)
    \/ \E h \in Handlers : LogAppend(h)
    \/ \E h \in Handlers : LogCheck(h)
    \/ \E h \in Handlers : LogRebind(h)
    \/ ClearLogs(TRUE)

SpecLog == Init /\ [][NextLog]_vars

\* POST /run over the wide request bodies and the worker up to the queue it
\* publishes
NextBuild ==
    \/ \E sel \in BuildSelections, req \in BuildLoopInputs :
          RunBot(sel, req, 1, MaxBuildProfiles * LoopsCap, TRUE)
    \/ \E w \in Threads : SeqInit(w)
    \/ \E w \in Threads : Build(w)

SpecBuild == Init /\ [][NextBuild]_vars

\* The profile store alone: the four handlers of /api/profiles.
NextProfiles ==
    \/ \E name \in Names, path \in Paths :
          AddProfile(name, path, MaxProfileId, TRUE)
    \/ \E id \in 1..MaxProfileId : DeleteProfile(id, TRUE)
    \/ \E id \in 1..MaxProfileId,
          name \in Names \cup {Absent}, path \in Paths \cup {Absent} :
          UpdateProfile(id, name, path, TRUE)
    \/ GetProfiles(TRUE)

SpecProfiles == Init /\ [][NextProfiles]_vars


\* One run next to the profile store: the handlers of /api/profiles change
\* profiles.json while the worker thread works through its queue.
NextLookup ==
    \/ \E sel \in BuildSelections :
          RunBot(sel, IntVal(1), 1, MaxLookupEntries, FALSE)
    \/ \E name \in Names, path \in Paths :
          AddProfile(name, path, MaxLookupId, FALSE)
    \/ \E id \in 1..MaxLookupId : DeleteProfile(id, FALSE)
    \/ \E id \in 1..MaxLookupId,
          name \in Names \cup {Absent}, path \in Paths \cup {Absent} :
          UpdateProfile(id, name, path, FALSE)
    \/ \E w \in Threads : SeqInit(w)
    \/ \E w \in Threads : Build(w)
    \/ \E w \in Threads : Loop(w)
    \/ \E w \in Threads : Final(w)
    \/ \E w \in Threads : PBegin(w)
    \/ \E w \in Threads : Checkpoint(w)
    \/ \E w \in Threads : HardStep(w)
    \/ \E w \in Threads : SoftStep(w)
    \/ \E w \in Threads : MarkCompleted(w)
    \/ \E w \in Threads : AppendCompleted(w)
    \/ \E w \in Threads : RecordResults(w)
    \/ \E w \in Threads : Except(w)
    \/ \E w \in Threads : AppendFailed(w)
    \/ \E w \in Threads : Finally(w)
    \/ \E w \in Threads : Return(w)

SpecLookup == Init /\ [][NextLookup]_vars

\* Runs of up to two rounds next to each other, with no other request.
NextOrder ==
    \/ \E sel \in Selections, req \in LoopInputs :
          RunBot(sel, req, MaxRuns, MaxOrderEntries, FALSE)
    \/ \E w \in Threads : SeqInit(w)
    \/ \E w \in Threads : Build(w)
    \/ \E w \in Threads : Loop(w)
    \/ \E w \in Threads : Final(w)
    \/ \E w \in Threads : PBegin(w)
    \/ \E w \in Threads : Checkpoint(w)
    \/ \E w \in Threads : HardStep(w)
    \/ \E w \in Threads : SoftStep(w)
    \/ \E w \in Threads : MarkCompleted(w)
    \/ \E w \in Threads : AppendCompleted(w)
    \/ \E w \in Threads : RecordResults(w)
    \/ \E w \in Threads : Except(w)
    \/ \E w \in Threads : AppendFailed(w)
    \/ \E w \in Threads : Finally(w)
    \/ \E w \in Threads : Return(w)

SpecOrder == Init /\ [][NextOrder]_vars

\* Runs of one stored profile and stop requests, with the history of the
\* stop requests kept.
NextStop ==
    \/ \E i \in DOMAIN StoredProfiles, req \in LoopInputs :
          RunBot(<<StoredProfiles[i].name>>, req, MaxRuns, MaxEntries, FALSE)
    \/ \E h \in Handlers : StopBot(h, FALSE, 0, TRUE)
    \/ \E w \in Threads : SeqInit(w)
    \/ \E w \in Threads : Build(w)
    \/ \E w \in Threads : Loop(w)
    \/ \E w \in Threads : Final(w)
    \/ \E w \in Threads : PBegin(w)
    \/ \E w \in Threads : Checkpoint(w)
    \/ \E w \in Threads : HardStep(w)
    \/ \E w \in Threads : SoftStep(w)
    \/ \E w \in Threads : MarkCompleted(w)
    \/ \E w \in Threads : AppendCompleted(w)
    \/ \E w \in Threads : RecordResults(w)
    \/ \E w \in Threads : Except(w)
    \/ \E w \in Threads : AppendFailed(w)
    \/ \E w \in Threads : Finally(w)
    \/ \E w \in Threads : Return(w)

SpecStop == Init /\ [][NextStop]_vars

----------------------------------------------------------------------------
(* Properties *)

\* a worker thread that has been started and has neither returned nor been
\* ended by an exception
Alive(w) == thr[w].pc \notin {"unborn", "done", "dead"}

CountStatus(q, S) == Cardinality({i \in DOMAIN q : q[i].status \in S})

\* the loops value the description gives for a requested value
ClampedTo(req) ==
    IF req.int /\ req.val >= 1
    THEN (IF req.val > LoopsCap THEN LoopsCap ELSE req.val)
    ELSE 1

\* C1: for a non-empty selection of P names and a requested loops value
\* clamped to L in [1,100], the queue the worker builds has P*L entries, all
\* pending, in round-major order: entry i (from 0) has round i div P + 1 and
\* profile selected_profiles[i mod P].
C1_QueueIsRoundMajor ==
    \A w \in Threads :
        thr[w].pc = "loop" =>
            LET sel == thr[w].selected_profiles
                P == Len(sel)
                L == ClampedTo(thr[w].request)
                q == queues[w]
            IN  /\ P >= 1
                /\ Len(q) = P * L
                /\ bot_status.total_rounds = L
                /\ \A i \in 0..(Len(q) - 1) :
                      /\ q[i + 1].status = "pending"
                      /\ q[i + 1].round = (i \div P) + 1
                      /\ q[i + 1].profile = sel[(i % P) + 1]

\* a queue of two profiles built for a request above the cap
C1_Witness ==
    \E w \in Threads :
        /\ thr[w].pc = "loop"
        /\ Len(thr[w].selected_profiles) = 2
        /\ thr[w].request.val > LoopsCap
        /\ Len(queues[w]) = 2 * LoopsCap
        /\ bot_status.queue = w

\* C2: at most one entry of the queue has status running, and none has it
\* while bot_status["running"] is false.
C2_AtMostOneRunning ==
    /\ CountStatus(VisibleQueue, {"running"}) <= 1
    /\ ~bot_status.running => CountStatus(VisibleQueue, {"running"}) = 0

\* C3: during a run, len(completed) + len(failed) + the entries skipped +
\* the entries pending or running = len(queue).
C3_CountsAddUp ==
    bot_status.running =>
        Len(bot_status.completed) + Len(bot_status.failed)
          + CountStatus(VisibleQueue, {"skipped"})
          + CountStatus(VisibleQueue, {"pending", "running"})
        = Len(VisibleQueue)

\* C5 as stated: when a pipeline returns, the sessions opened for the entry
\* and the driver.quit() calls made for it are equally many.
C5_OpensEqualQuits ==
    \A w \in Threads : thr[w].pc = "return" => thr[w].opens = thr[w].quits

\* C5: when a pipeline returns, on any exit path, no session opened for the
\* entry is still open: at most one was opened, and quit was called for it
\* once or twice, and never without a session.
C5_NoSessionLeft ==
    \A w \in Threads :
        thr[w].pc = "return" =>
            /\ thr[w].driver # "open"
            /\ thr[w].opens <= 1
            /\ thr[w].opens <= thr[w].quits
            /\ thr[w].quits <= 2 * thr[w].opens

\* a pipeline cancelled after browser setup returns: one open, two quits
C5_Witness ==
    \E w \in Threads :
        /\ thr[w].pc = "return"
        /\ thr[w].opens = 1
        /\ thr[w].quits = 2

\* C6: at most one worker thread executes run_bot_sequential at any time.
C6_SingleWorker == Cardinality({w \in Threads : Alive(w)}) <= 1

\* C7: a POST /run answered 400 starts no worker and changes no field of
\* bot_status (so running stays false when it was).
C7_RejectedRunChangesNothing ==
    [][response' = [route |-> "run", code |-> 400] =>
          /\ bot_status' = bot_status
          /\ queues' = queues
          /\ thr' = thr
          /\ nthreads' = nthreads]_vars

\* a POST /run with an empty selection rejected while idle, after a run
\* that left results
C7_Witness ==
    /\ response = [route |-> "run", code |-> 400]
    /\ ~bot_status.running
    /\ Len(bot_status.completed) > 0

\* bot_status["queue"] as a list, for the values bs and qs of bot_status and
\* queues
QueueOf(bs, qs) == IF bs.queue = 0 THEN <<>> ELSE qs[bs.queue]

\* this step changes the status of some entry of some list to one of S
ChangedTo(S) ==
    \E w \in Threads : \E i \in DOMAIN queues[w] :
        /\ i \in DOMAIN queues'[w]
        /\ queues'[w][i].status # queues[w][i].status
        /\ queues'[w][i].status \in S

\* this step is taken by worker w
StepOf(w) == thr'[w] # thr[w]

\* C4 as stated: from a state of a run in which stop_requested is true, no
\* step changes an entry's status to completed or failed.
C4_NothingEndsAfterStop ==
    [][(bot_status.running /\ bot_status.stop_requested)
          => ~ChangedTo({"completed", "failed"})]_vars

\* C4: a worker that reads stop_requested as true, at the top of a queue
\* iteration or at a pipeline checkpoint, changes statuses to skipped only
\* in that step, appends nothing to completed or failed, and goes on to no
\* pipeline step.
C4_ObservedStopOnlySkips ==
    [][\A w \in Threads :
          ( /\ StepOf(w)
            /\ bot_status.stop_requested
            /\ \/ thr[w].pc \in Checkpoints
               \/ thr[w].pc = "loop" /\ thr[w].index <= Len(queues[w]) )
          => /\ ~ChangedTo({"pending", "running", "completed", "failed"})
             /\ bot_status'.completed = bot_status.completed
             /\ bot_status'.failed = bot_status.failed
             /\ thr'[w].pc \in {"finally", "except", "final", "dead"}]_vars

\* the top of a queue iteration has read the stop and skipped the entry
\* behind the one that was run
C4_Witness ==
    \E w \in Threads :
        /\ thr[w].pc = "final"
        /\ bot_status.stop_requested
        /\ bot_status.queue = w
        /\ Len(queues[w]) = 2
        /\ queues[w][1].status = "completed"
        /\ queues[w][2].status = "skipped"

\* C8 (its safety part): once a stop is requested during a run, completed
\* and failed entries keep their status, and when running returns to false
\* no entry of the queue is left pending or running.
C8_StopSettlesQueue ==
    [][bot_status.stop_requested /\ bot_status.running =>
          /\ \A i \in DOMAIN VisibleQueue :
                VisibleQueue[i].status \in {"completed", "failed"}
                => /\ i \in DOMAIN QueueOf(bot_status', queues')
                   /\ QueueOf(bot_status', queues')[i].status
                        = VisibleQueue[i].status
          /\ ~bot_status'.running =>
                CountStatus(QueueOf(bot_status', queues'),
                            {"pending", "running"}) = 0]_vars

\* C8 (its liveness part): a stop requested during a run leads to
\* running = false.
C8_StopLeadsToIdle ==
    (bot_status.running /\ bot_status.stop_requested) ~> ~bot_status.running

\* C9: in the step that sets running to false no entry of the queue is
\* pending or running, and completed and failed hold as many keys as the
\* queue has entries with that status.
C9_RunEndsSettled ==
    [][bot_status.running /\ ~bot_status'.running =>
          LET q == QueueOf(bot_status', queues')
          IN  /\ CountStatus(q, {"pending", "running"}) = 0
              /\ Len(bot_status'.completed) = CountStatus(q, {"completed"})
              /\ Len(bot_status'.failed) = CountStatus(q, {"failed"})]_vars

\* C10: an entry becomes failed, with its key appended to failed, exactly
\* when one of the steps browser setup, navigation, login check failed for
\* it, and then no later step is invoked for it.
C10_FailedIffHardStepFailed ==
    [][/\ \A w \in Threads :
             /\ (StepOf(w) /\ thr[w].pc = "except" /\ thr[w].exc \in HardSteps)
                => /\ thr'[w].pc = "append_failed"
                   /\ QueueOf(bot_status', queues')[thr[w].index].status = "failed"
             /\ (StepOf(w) /\ thr[w].pc = "append_failed")
                => bot_status'.failed = Append(bot_status.failed, EntryKey(w))
             /\ thr[w].exc # "none"
                => thr'[w].pc \notin Steps \cup Checkpoints \cup {"mark_completed"}
       /\ (ChangedTo({"failed"}) \/ Len(bot_status'.failed) > Len(bot_status.failed))
             => \E w \in Threads : StepOf(w) /\ thr[w].exc \in HardSteps]_vars

\* C11: an entry whose profile is not in the lookup goes from pending to
\* skipped in the one step that reaches it: it is never running, no session
\* is created and no step invoked for it, its key is added to neither
\* completed nor failed, and the worker goes on to the next entry.
C11_UnresolvableIsSkipped ==
    [][\A w \in Threads :
          ( /\ StepOf(w)
            /\ thr[w].pc = "loop"
            /\ thr[w].index <= Len(queues[w])
            /\ ~bot_status.stop_requested
            /\ queues[w][thr[w].index].profile \notin DOMAIN thr[w].profiles_dict )
          => /\ queues[w][thr[w].index].status = "pending"
             /\ thr[w].index \in DOMAIN queues'[w]
             /\ queues'[w][thr[w].index].status = "skipped"
             /\ thr'[w].pc = "loop"
             /\ thr'[w].index = thr[w].index + 1
             /\ thr'[w].driver = "none"
             /\ thr'[w].opens = 0
             /\ bot_status'.completed = bot_status.completed
             /\ bot_status'.failed = bot_status.failed]_vars

\* C12: a POST /reset handled while running is true is answered 400 and
\* changes no field of bot_status; handled while running is false it is
\* answered 200 and leaves every field, the log list included, at its
\* default.
C12_ResetRejectsOrRestores ==
    [][response'.route = "reset" =>
          IF bot_status.running
          THEN /\ response'.code = 400
               /\ bot_status' = bot_status
               /\ logs' = logs
               /\ queues' = queues
          ELSE /\ response'.code = 200
               /\ bot_status' = DefaultStatus
               /\ QueueOf(bot_status', queues') = <<>>
               /\ logs' = <<>>]_vars

\* a reset accepted after a run and after every add_log call of the
\* behaviour has returned
C12_Witness ==
    /\ response = [route |-> "reset", code |-> 200]
    /\ nthreads > 0
    /\ nlogged = MaxResetLogLines
    /\ \A h \in Handlers : logger[h].pc = "idle"
    /\ logs = <<>>

\* C13: from every idle state, reset applied twice gives what reset applied
\* once gives, and that is the default status with an empty log.
C13_ResetIdempotent ==
    ~bot_status.running =>
        LET once == ResetApplied(bot_status, logs)
            twice == ResetApplied(once.status, once.logs)
        IN  /\ once.code = 200
            /\ twice.code = 200
            /\ twice.status = once.status
            /\ twice.logs = once.logs
            /\ once.status = DefaultStatus
            /\ once.logs = <<>>

\* a reset accepted after a finished run, with a stop requested and a line
\* in the log before it
C13_Witness ==
    /\ response = [route |-> "reset", code |-> 200]
    /\ \E w \in Threads : thr[w].pc = "done"
    /\ nlogged > 0
    /\ bot_status = DefaultStatus

\* the steps that a read of stop_requested immediately precedes
CheckedSteps == {"browser_setup", "navigation", "browse_feed", "story", "comment"}

\* C14 as stated: step 9 (like first post) is not invoked once a stop has
\* been requested.
C14_StopPreventsLikePost ==
    [][\A w \in Threads :
          (StepOf(w) /\ thr'[w].pc = "like_post") => ~bot_status.stop_requested]_vars

\* C14: the pipeline reads stop_requested at five points, immediately
\* before steps 1, 2, 5, 8 and 10: a worker goes on to one of these steps
\* only from a check that read the flag as false, and to every other step
\* from the step before it, whatever the flag is.
C14_FiveChecksBeforeSteps ==
    [][\A w \in Threads :
          (StepOf(w) /\ thr'[w].pc \in Steps) =>
              IF thr'[w].pc \in CheckedSteps
              THEN /\ thr[w].pc \in Checkpoints
                   /\ ~bot_status.stop_requested
              ELSE thr[w].pc \in Steps]_vars

\* step 9 has run after a stop was requested, and the check before step 10
\* is about to read the flag
C14_Witness ==
    \E w \in Threads :
        /\ thr[w].pc = "cp5"
        /\ bot_status.stop_requested
        /\ "like_post" \in DOMAIN thr[w].tasks
        /\ "story" \in DOMAIN thr[w].tasks

\* C15: a soft-fail step goes on to the next statement of the pipeline
\* whatever it returns, and records what it returned (feed browsing always
\* True); a pipeline that reaches app.py:236 has recorded all eleven steps,
\* sets its entry to completed and then appends its key to completed.
C15_SoftFailuresStillComplete ==
    [][\A w \in Threads :
          /\ (StepOf(w) /\ thr[w].pc \in SoftSteps)
                => /\ thr'[w].pc = After(thr[w].pc)
                   /\ thr[w].pc \in DOMAIN thr'[w].tasks
                   /\ thr[w].pc = "browse_feed" => thr'[w].tasks["browse_feed"]
          /\ (StepOf(w) /\ thr[w].pc = "mark_completed")
                => /\ DOMAIN thr[w].tasks = Steps
                   /\ thr'[w].pc = "append_completed"
                   /\ thr[w].index \in DOMAIN queues'[w]
                   /\ queues'[w][thr[w].index].status = "completed"
          /\ (StepOf(w) /\ thr[w].pc = "append_completed")
                => bot_status'.completed
                     = Append(bot_status.completed, EntryKey(w))]_vars

\* C18: no exception ends a worker thread while running is still true, so
\* that every run that starts ends with running = false.
C18_NoFaultEndsWorker ==
    \A w \in Threads : thr[w].pc = "dead" => ~bot_status.running

\* C18 (its liveness part): running = true leads to running = false.
C18_RunEventuallyEnds == bot_status.running ~> ~bot_status.running

\* C16: while no stop is requested, no step ends the worker before the end
\* of its queue, the worker's position in the queue never goes back (no
\* entry is run twice), a pipeline that returns, failed or not, is followed
\* by the next entry, and an entry is skipped only for a profile that is not
\* in the lookup.
C16_FailureNeverEndsRun ==
    [][\A w \in Threads :
          (StepOf(w) /\ Alive(w) /\ ~bot_status.stop_requested)
          => /\ thr'[w].pc # "dead"
             /\ thr'[w].pc # "done" => thr'[w].index >= thr[w].index
             /\ thr[w].pc = "return"
                  => thr'[w].pc = "loop" /\ thr'[w].index = thr[w].index + 1
             /\ ChangedTo({"skipped"})
                  => /\ thr[w].pc = "loop"
                     /\ Item(w).profile \notin DOMAIN thr[w].profiles_dict]_vars

\* C16 (its liveness part): unless a stop is requested, a run with an entry
\* still pending or running leads to a queue with none.
C16_EveryEntryIsRun ==
    (bot_status.running /\ CountStatus(VisibleQueue, {"pending", "running"}) > 0)
        ~> (bot_status.stop_requested
              \/ CountStatus(VisibleQueue, {"pending", "running"}) = 0)

\* C17: the step in which a worker leaves the queue loop, after the last
\* entry or after a stop, leaves running false, current_profile and
\* current_task None, current_round 0 and current_queue_index -1, and
\* changes nothing of queue, completed, failed and task_results.
C17_FinalClearsOnlyProgress ==
    [][\A w \in Threads :
          (StepOf(w) /\ thr[w].pc = "final")
          => /\ thr'[w].pc = "done"
             /\ ~bot_status'.running
             /\ bot_status'.current_profile = "None"
             /\ bot_status'.current_task = "None"
             /\ bot_status'.current_round = 0
             /\ bot_status'.current_queue_index = -1
             /\ bot_status'.queue = bot_status.queue
             /\ QueueOf(bot_status', queues') = VisibleQueue
             /\ bot_status'.completed = bot_status.completed
             /\ bot_status'.failed = bot_status.failed
             /\ bot_status'.task_results = bot_status.task_results]_vars

\* a run of two entries has ended after a stop: the first entry failed, the
\* second was skipped, and the lists still say so
C17_Witness ==
    \E w \in Threads :
        /\ thr[w].pc = "done"
        /\ ~bot_status.running
        /\ bot_status.stop_requested
        /\ bot_status.current_queue_index = -1
        /\ bot_status.queue = w
        /\ Len(queues[w]) = 2
        /\ queues[w][1].status = "failed"
        /\ queues[w][2].status = "skipped"
        /\ Len(bot_status.failed) = 1

\* C19: at most one browser session is open at any time, and no session is
\* open between the pipelines of two entries: when a worker is in the queue
\* loop, or in a pipeline before its browser setup, it holds no open
\* session (every entry gets a new one).
C19_OneSessionAtATime ==
    /\ Cardinality({w \in Threads : thr[w].driver = "open"}) <= 1
    /\ \A w \in Threads :
          thr[w].pc \in {"start", "build", "loop", "final", "p_begin", "cp1",
                         "browser_setup", "done", "dead"}
              => thr[w].driver # "open"

\* C20: when an add_log call returns, the log holds at most 200 lines, and
\* they are the last lines of the list as it was appended to, in that
\* order: only the oldest lines beyond 200 are gone.
C20_LogKeepsLastLines ==
    [][\A h \in Handlers :
          (logger[h].pc \in {"check", "rebind"} /\ logger'[h].pc = "idle")
          => /\ Len(logs') <= LogCap
             /\ logs' = LastLines(logs)]_vars

\* the lines of the list l
Lines(l) == {l[i] : i \in DOMAIN l}

\* C21: POST /clear-logs changes nothing but the log list, which it leaves
\* empty, and no line that has left the log comes back: a step adds to the
\* log only the line it appends.
C21_ClearedLinesStayGone ==
    [][/\ response'.route = "clear_logs"
            => /\ bot_status' = bot_status
               /\ queues' = queues
               /\ thr' = thr
               /\ logs' = <<>>
       /\ Lines(logs') \subseteq Lines(logs) \cup {nlogged + 1}]_vars

\* the ids and the paths of the stored profiles
StoredIds == {profiles[i].id : i \in DOMAIN profiles}
StoredPaths == {profiles[i].path : i \in DOMAIN profiles}

\* C22: after any sequence of profile add, update and delete requests no two
\* stored profiles have the same path, and a request that answers 400 leaves
\* the profile list as it was.
C22_PathsStayDistinct ==
    [][/\ Cardinality(StoredPaths') = Len(profiles')
       /\ response'.code = 400 => profiles' = profiles]_vars

\* C23: the stored profiles have distinct ids, and a newly added profile
\* gets an id greater than every id given out before, the ids of profiles
\* deleted since included.
C23_IdsNeverReused ==
    [][/\ Cardinality(StoredIds') = Len(profiles')
       /\ (response'.route = "add_profile" /\ response'.code = 200)
             => \A a \in assigned : profiles'[Len(profiles')].id > a]_vars

\* the worker is between taking its lookup (app.py:284-285) and its end
HasLookup(w) == thr[w].pc \notin {"unborn", "start", "build", "done", "dead"}

\* C24: the name-to-profile lookup is taken once, when the run starts.
\* Whatever the profile requests do afterwards, the lookup stays as taken, an
\* entry is skipped as unresolvable exactly when its name is not in it, and
\* an entry is executed with the profile the lookup has for its name.
C24_LookupTakenOnce ==
    [][\A w \in Threads :
          /\ thr[w].pc = "build" /\ thr'[w].pc = "loop"
                => thr'[w].profiles_dict = DictOf(profiles)
          /\ HasLookup(w) /\ thr'[w].pc \notin {"done", "dead"}
                => thr'[w].profiles_dict = thr[w].profiles_dict
          /\ thr[w].pc = "loop" /\ thr'[w].pc = "p_begin"
                => /\ Item(w).profile \in DOMAIN thr[w].profiles_dict
                   /\ thr'[w].profile = thr[w].profiles_dict[Item(w).profile]
          /\ thr[w].pc = "loop" /\ thr'[w].pc = "loop"
                                /\ thr'[w].index = thr[w].index + 1
                => Item(w).profile \notin DOMAIN thr[w].profiles_dict
          /\ thr[w].pc \notin {"unborn", "start", "build", "loop"}
                /\ thr'[w].pc \notin {"done", "dead"}
                => thr'[w].profile = thr[w].profile]_vars

\* an entry is being executed with a profile that is stored no longer, after
\* an entry was skipped whose name has a profile by now
C24_Witness ==
    \E w \in Threads :
        /\ thr[w].pc = "browser_setup"
        /\ thr[w].index = 2
        /\ queues[w][1].status = "skipped"
        /\ queues[w][1].profile \in DOMAIN DictOf(profiles)
        /\ thr[w].profile.name \notin DOMAIN DictOf(profiles)
        /\ thr[w].profile.path \notin StoredPaths

\* C25: when a checkpoint of the pipeline reads stop_requested as true, the
\* entry's status becomes skipped, the pipeline goes to its finally block
\* without another step, a session that was opened is closed, and the key
\* is added to neither completed nor failed.
C25_CheckpointStopSkipsEntry ==
    [][\A w \in Threads :
          ( /\ StepOf(w)
            /\ thr[w].pc \in Checkpoints
            /\ bot_status.stop_requested )
          => /\ thr'[w].pc = "finally"
             /\ thr'[w].driver # "open"
             /\ thr[w].index \in DOMAIN queues'[w]
             /\ queues'[w][thr[w].index].status = "skipped"
             /\ ~ChangedTo({"pending", "running", "completed", "failed"})
             /\ bot_status'.completed = bot_status.completed
             /\ bot_status'.failed = bot_status.failed]_vars

Terminal == {"completed", "failed", "skipped"}

\* C26: entries leave pending in queue order: an entry is running or
\* terminal only if the entry before it is terminal.
C26_EntriesLeavePendingInOrder ==
    \A i \in 1..(Len(VisibleQueue) - 1) :
        VisibleQueue[i + 1].status # "pending"
            => VisibleQueue[i].status \in Terminal

\* the eleven driver steps in their order
FixedOrder ==
    <<"browser_setup", "navigation", "login_check", "feed_access",
      "browse_feed", "visit_profile", "return_home", "story", "like_post",
      "comment", "image_post">>

\* the first k steps of the order
FirstSteps(k) == {FixedOrder[j] : j \in 1..k}

\* C27: within one execution of the pipeline the driver steps invoked are a
\* prefix of the fixed order: step k is invoked when exactly the k - 1 steps
\* before it have been invoked, and the step invoked after it, if any, is
\* step k + 1.
C27_StepsFormPrefix ==
    [][\A w \in Threads : \A k \in DOMAIN FixedOrder :
          ( StepOf(w) /\ thr[w].pc = FixedOrder[k] )
          => /\ DOMAIN thr[w].tasks = FirstSteps(k - 1)
             /\ \/ thr'[w].pc = "except"
                \/ /\ DOMAIN thr'[w].tasks = FirstSteps(k)
                   /\ thr'[w].pc \in Checkpoints \cup {"mark_completed"}
                         \cup (IF k < Len(FixedOrder)
                               THEN {FixedOrder[k + 1]} ELSE {})]_vars

\* the last of the eleven steps has been invoked
C27_Witness ==
    \E w \in Threads :
        /\ thr[w].pc = "mark_completed"
        /\ DOMAIN thr[w].tasks = FirstSteps(Len(FixedOrder))

\* the status changes an entry can make
Transitions ==
    {<<"pending", "running">>, <<"pending", "skipped">>,
     <<"running", "completed">>, <<"running", "failed">>,
     <<"running", "skipped">>}

\* C28: every status change of an entry is pending -> running, pending ->
\* skipped, running -> completed, running -> failed or running -> skipped,
\* and while a list is the queue of a run its length and the profile and
\* round of each entry stay as they are.
C28_StatusesMoveForward ==
    [][\A w \in Threads :
          (queues[w] # <<>> /\ queues'[w] # <<>>)
          => /\ Len(queues'[w]) = Len(queues[w])
             /\ \A i \in DOMAIN queues[w] :
                   /\ queues'[w][i].profile = queues[w][i].profile
                   /\ queues'[w][i].round = queues[w][i].round
                   /\ \/ queues'[w][i].status = queues[w][i].status
                      \/ <<queues[w][i].status, queues'[w][i].status>>
                            \in Transitions]_vars

\* the place of a driver step in the order
OrderOf(step) == CHOOSE k \in DOMAIN FixedOrder : FixedOrder[k] = step

\* C29: when the pipeline of an entry has ended, task_results holds under
\* the entry's key the outcomes of the steps that were reached: all eleven
\* after a completion, and the steps before the failing one after a hard
\* failure.
C29_ResultsHoldStepsReached ==
    \A w \in Threads :
        ( /\ thr[w].pc = "return"
          /\ ~thr[w].raising
          /\ EntryKey(w) \in DOMAIN bot_status.task_results )
        => LET recorded == DOMAIN bot_status.task_results[EntryKey(w)]
           IN  /\ thr[w].exc \in HardSteps
                     => FirstSteps(OrderOf(thr[w].exc) - 1) \subseteq recorded
               /\ queues[w][thr[w].index].status = "completed"
                     => recorded = FirstSteps(Len(FixedOrder))

\* C30: a stop request handled after a run was accepted and before the run
\* has ended is not lost: the step that follows the answer of POST /stop
\* leaves stop_requested true unless it ends the run.
C30_StopIsNeverLost ==
    [][\A w \in Threads :
          ( /\ response.route = "stop_bot"
            /\ Alive(w)
            /\ thr'[w].pc \notin {"done", "dead"} )
          => bot_status'.stop_requested]_vars

\* C31: after a stop is requested while a worker is processing its queue,
\* the worker starts at most three further driver steps, and none of them
\* for an entry behind the one it was on.
C31_StopBoundsSteps ==
    \A w \in Threads :
        /\ stopped[w].steps <= 3
        /\ ~stopped[w].later

\* C32: while a worker is between building its queue and leaving the queue
\* loop, running is true and bot_status["queue"] is the list that worker
\* built and is indexing.
C32_WorkerOwnsRunState ==
    \A w \in Threads :
        Processing(w) => /\ bot_status.running
                         /\ bot_status.queue = w

\* C33: whenever an entry of the queue has status running,
\* current_queue_index is its index and current_profile and current_round
\* are its profile name and its round.
C33_CurrentFieldsNameRunningEntry ==
    \A i \in DOMAIN VisibleQueue :
        VisibleQueue[i].status = "running"
            => /\ bot_status.current_queue_index = i - 1
               /\ bot_status.current_profile = VisibleQueue[i].profile
               /\ bot_status.current_round = VisibleQueue[i].round

\* the keys of the entries that ended completed or failed
EndedKeys == bot_status.completed \o bot_status.failed

\* C34: the queue entries of a run have distinct result keys: no key
\* occurs twice in completed and failed together.
C34_ResultKeysAreDistinct ==
    \A i, j \in DOMAIN EndedKeys : EndedKeys[i] = EndedKeys[j] => i = j

====
